---- MODULE Spec2Model ----
(***************************************************************************)
(* A model of the forensic analyzer repository:                            *)
(*   src/evaluate.py                 the offline Evaluator                 *)
(*   src/forensic_analyzer_backup.py the two-stage extraction pipeline     *)
(*                                                                         *)
(* The module holds several specifications over one set of variables.      *)
(* Each specification drives one group of variables and leaves the other   *)
(* groups at their idle values:                                            *)
(*   SpecPRF       precision_recall_f1 applied to bounded artifact sets    *)
(*   SpecMap       mapping_accuracy applied to bounded phase maps          *)
(*   SpecDoc       to_artifact_set and to_phase_map applied to one parsed  *)
(*                 document, as main applies them                          *)
(*   SpecStage     the response parsing of extract_artifacts and           *)
(*                 reason_and_map applied to bounded response texts        *)
(*   SpecPipeline  one run of the analyzer's main: Stage 1, Stage 2,       *)
(*                 display, summary and JSON output                        *)
(*   SpecEval      one run of evaluate.py's main on two files              *)
(*   SpecNorm      the normalization of one artifact entry, applied twice  *)
(*   SpecChain     one run of the analyzer's main, then evaluate.py's main *)
(*                 on the complete-results file that run wrote             *)
(***************************************************************************)
EXTENDS Integers, Sequences, FiniteSets, TLC

VARIABLES
    pred, truth, prf, prfSwapped,         \* precision_recall_f1 and its arguments
    pred_map, truth_map, acc,             \* mapping_accuracy and its arguments
    doc, aset, pmap,                      \* one parsed document and what is extracted from it
    content, stage, stageRes,             \* one response, the stage reading it, the outcome
    pc, env,                              \* the analyzer's main: position, inputs
    gen_calls, response, stage_outcome,   \* per stage: calls made, content received, outcome
    artifacts_result, reasoning_arg, reasoning_result,
    displayed, summary_file, json_file, exit_code,
    epc, files, loaded, scores, stdout, eval_exit,  \* evaluate.py's main
    artifact, a_norm, a_renorm            \* one artifact entry, normalized once and twice

prfVars == <<pred, truth, prf, prfSwapped>>
mapVars == <<pred_map, truth_map, acc>>
docVars == <<doc, aset, pmap>>
stageVars == <<content, stage, stageRes>>
runVars == <<pc, env, gen_calls, response, stage_outcome, artifacts_result,
             reasoning_arg, reasoning_result, displayed, summary_file, json_file,
             exit_code>>
evalVars == <<epc, files, loaded, scores, stdout, eval_exit>>
normVars == <<artifact, a_norm, a_renorm>>
vars == <<prfVars, mapVars, docVars, stageVars, runVars, evalVars, normVars>>

\* A result slot no call has filled yet.
NotCalled == [exc |-> "not_called"]

(***************************************************************************)
(* Python floats, as exact non-negative rationals [n, d] in lowest terms.  *)
(* d = 0 marks a raised ZeroDivisionError.                                 *)
(***************************************************************************)
RECURSIVE Gcd(_, _)
Gcd(a, b) == IF b = 0 THEN a ELSE Gcd(b, a % b)

ZeroDivisionError == [n |-> 0, d |-> 0]
IsErr(x) == x.d = 0
Rat(n, d) == IF n = 0 THEN [n |-> 0, d |-> 1]
             ELSE [n |-> n \div Gcd(n, d), d |-> d \div Gcd(n, d)]
Zero == [n |-> 0, d |-> 1]     \* the literal 0.0
FromInt(i) == [n |-> i, d |-> 1]

\* x / y on numbers: raises when y is zero.
TrueDiv(x, y) ==
    IF IsErr(x) \/ IsErr(y) THEN ZeroDivisionError
    ELSE IF y.n = 0 THEN ZeroDivisionError
    ELSE Rat(x.n * y.d, x.d * y.n)
RatAdd(x, y) ==
    IF IsErr(x) \/ IsErr(y) THEN ZeroDivisionError
    ELSE Rat(x.n * y.d + y.n * x.d, x.d * y.d)
RatMul(x, y) ==
    IF IsErr(x) \/ IsErr(y) THEN ZeroDivisionError
    ELSE Rat(x.n * y.n, x.d * y.d)
RatGtZero(x) == ~IsErr(x) /\ x.n > 0

(***************************************************************************)
(* evaluate.py: precision_recall_f1                                        *)
(***************************************************************************)
PRFResult(precision, recall, f1) ==
    IF IsErr(precision) \/ IsErr(recall) \/ IsErr(f1)
    THEN [exc |-> "ZeroDivisionError"]
    ELSE [exc |-> "none", precision |-> precision, recall |-> recall, f1 |-> f1]

\* Mutant: the zero guards of precision and recall admit a zero denominator.
precision_recall_f1_unguarded(p, t) ==
    LET tp == Cardinality(p \cap t)
        fp == Cardinality(p \ t)
        fn == Cardinality(t \ p)
        precision == IF (tp + fp) >= 0 THEN TrueDiv(FromInt(tp), FromInt(tp + fp)) ELSE Zero
        recall == IF (tp + fn) >= 0 THEN TrueDiv(FromInt(tp), FromInt(tp + fn)) ELSE Zero
        f1 == IF RatGtZero(RatAdd(precision, recall))
              THEN TrueDiv(RatMul(RatMul(FromInt(2), precision), recall),
                           RatAdd(precision, recall))
              ELSE Zero
    IN PRFResult(precision, recall, f1)

\* Mutant: recall divides by tp + fp, the denominator of precision.
precision_recall_f1_recall_fp(p, t) ==
    LET tp == Cardinality(p \cap t)
        fp == Cardinality(p \ t)
        precision == IF (tp + fp) > 0 THEN TrueDiv(FromInt(tp), FromInt(tp + fp)) ELSE Zero
        recall == IF (tp + fp) > 0 THEN TrueDiv(FromInt(tp), FromInt(tp + fp)) ELSE Zero
        f1 == IF RatGtZero(RatAdd(precision, recall))
              THEN TrueDiv(RatMul(RatMul(FromInt(2), precision), recall),
                           RatAdd(precision, recall))
              ELSE Zero
    IN PRFResult(precision, recall, f1)

precision_recall_f1(p, t) ==
    LET tp == Cardinality(p \cap t)
        fp == Cardinality(p \ t)
        fn == Cardinality(t \ p)
        precision == IF (tp + fp) > 0 THEN TrueDiv(FromInt(tp), FromInt(tp + fp)) ELSE Zero
        recall == IF (tp + fn) > 0 THEN TrueDiv(FromInt(tp), FromInt(tp + fn)) ELSE Zero
        f1 == IF RatGtZero(RatAdd(precision, recall))
              THEN TrueDiv(RatMul(RatMul(FromInt(2), precision), recall),
                           RatAdd(precision, recall))
              ELSE Zero
    IN PRFResult(precision, recall, f1)

(***************************************************************************)
(* evaluate.py: mapping_accuracy.  A phase map is a function from identity *)
(* pairs to phase labels; dict.keys() is its DOMAIN.                       *)
(***************************************************************************)
\* A case-folded label, for the mutant below.
FoldLabel(l) == IF l = "Persistence" THEN "persistence" ELSE l

\* Mutant: phase labels are compared after case-folding.
mapping_accuracy_casefold(pm, tm) ==
    LET keys == (DOMAIN tm) \cap (DOMAIN pm)
        correct == Cardinality({k \in keys : FoldLabel(pm[k]) = FoldLabel(tm[k])})
    IN IF keys = {} THEN Zero
       ELSE TrueDiv(FromInt(correct), FromInt(Cardinality(keys)))

mapping_accuracy(pm, tm) ==
    LET keys == (DOMAIN tm) \cap (DOMAIN pm)
        correct == Cardinality({k \in keys : pm[k] = tm[k]})
    IN IF keys = {} THEN Zero
       ELSE TrueDiv(FromInt(correct), FromInt(Cardinality(keys)))

(***************************************************************************)
(* Parsed JSON values (what json.load returns), tagged by kind.  A string  *)
(* is a sequence of one-character strings; a dict is a function from its   *)
(* keys to values.                                                         *)
(***************************************************************************)
JNull == [k |-> "null"]
JNum(n) == [k |-> "num", n |-> n]
JStr(s) == [k |-> "str", s |-> s]
JList(xs) == [k |-> "list", items |-> xs]
JDict(f) == [k |-> "dict", f |-> f]
EmptyDict == JDict(<<>>)
EmptyList == JList(<<>>)

\* bool(v): None, 0, '', [] and {} are falsy.
Truthy(v) ==
    CASE v.k = "null" -> FALSE
      [] v.k = "num"  -> v.n # 0
      [] v.k = "str"  -> v.s # <<>>
      [] v.k = "list" -> v.items # <<>>
      [] v.k = "dict" -> DOMAIN v.f # {}

\* d.get(key, default) on a dict d.
DictGet(d, key, default) == IF key \in DOMAIN d.f THEN d.f[key] ELSE default

\* A normal result, and a raised exception.
Ok(v) == [exc |-> "none", val |-> v]
Raise(e) == [exc |-> e]

\* str.strip(): leading and trailing whitespace removed.
Whitespace == {" "}
RECURSIVE LStrip(_)
LStrip(s) == IF s # <<>> /\ Head(s) \in Whitespace THEN LStrip(Tail(s)) ELSE s
RECURSIVE RStrip(_)
RStrip(s) == IF s # <<>> /\ s[Len(s)] \in Whitespace
             THEN RStrip(SubSeq(s, 1, Len(s) - 1)) ELSE s
Strip(s) == RStrip(LStrip(s))

\* str.lower(), on the letters of the model's alphabet.
LowerChar(c) == CASE c = "A" -> "a" [] c = "B" -> "b" [] c = "I" -> "i"
                  [] c = "P" -> "p" [] OTHER -> c
\* Mutant: the case of every letter is swapped.
Lower_swapcase(s) ==
    [i \in 1..Len(s) |-> IF s[i] = "a" THEN "A" ELSE LowerChar(s[i])]

Lower(s) == [i \in 1..Len(s) |-> LowerChar(s[i])]

\* Some enumeration of a finite set (a dict's keys, whose order no caller reads).
RECURSIVE SetToSeq(_)
SetToSeq(S) == IF S = {} THEN <<>>
               ELSE LET x == CHOOSE y \in S : TRUE IN <<x>> \o SetToSeq(S \ {x})

\* The elements a for loop visits: a list's items, a string's characters, a
\* dict's keys (strings); None and numbers are not iterable.
Iter(v) ==
    CASE v.k = "list" -> Ok(v.items)
      [] v.k = "str"  -> Ok([i \in 1..Len(v.s) |-> JStr(<<v.s[i]>>)])
      [] v.k = "dict" -> Ok([i \in 1..Cardinality(DOMAIN v.f) |->
                                JStr(<<SetToSeq(DOMAIN v.f)[i]>>)])
      [] OTHER        -> Raise("TypeError")

(***************************************************************************)
(* evaluate.py: to_artifact_set and to_phase_map                           *)
(***************************************************************************)
\* (a.get(key) or '').strip(): a non-dict has no get, a truthy non-string no strip.
StrippedField(a, key) ==
    IF a.k # "dict" THEN Raise("AttributeError")
    ELSE LET v == DictGet(a, key, JNull)
         IN IF ~Truthy(v) THEN Ok(<<>>)
            ELSE IF v.k = "str" THEN Ok(Strip(v.s))
            ELSE Raise("AttributeError")

\* Lines 32 and 45: a_type.
NormType(a) ==
    LET r == StrippedField(a, "type")
    IN IF r.exc = "none" THEN Ok(Lower(r.val)) ELSE r

\* Mutant: the value is lower-cased as the type is.
NormValue_lower(a) ==
    LET r == StrippedField(a, "value")
    IN IF r.exc = "none" THEN Ok(Lower(r.val)) ELSE r

\* Lines 33 and 46: a_val.
NormValue(a) == StrippedField(a, "value")

RECURSIVE ArtifactLoop(_, _, _)
ArtifactLoop(items, i, result) ==
    IF i > Len(items) THEN Ok(result)
    ELSE LET t == NormType(items[i])
         IN IF t.exc # "none" THEN t
            ELSE LET v == NormValue(items[i])
                 IN IF v.exc # "none" THEN v
                    ELSE ArtifactLoop(items, i + 1,
                            IF t.val # <<>> /\ v.val # <<>>
                            THEN result \cup {<<t.val, v.val>>} ELSE result)

to_artifact_set(artifacts_obj) ==
    LET artifacts == IF artifacts_obj.k = "dict"
                     THEN DictGet(artifacts_obj, "artifacts", EmptyList)
                     ELSE EmptyList
        it == Iter(artifacts)
    IN IF it.exc # "none" THEN it ELSE ArtifactLoop(it.val, 1, {})

\* Mutant: a key already mapped keeps its first phase.
DictSetDefault(m, key, val) ==
    IF key \in DOMAIN m THEN m
    ELSE [x \in (DOMAIN m) \cup {key} |-> IF x = key THEN val ELSE m[x]]

\* mapping[key] = val
DictSet(m, key, val) ==
    [x \in (DOMAIN m) \cup {key} |-> IF x = key THEN val ELSE m[x]]

\* The inner loop of to_phase_map, over one group's artifacts.
RECURSIVE GroupLoop(_, _, _, _)
GroupLoop(items, j, phase_name, mapping) ==
    IF j > Len(items) THEN Ok(mapping)
    ELSE LET t == NormType(items[j])
         IN IF t.exc # "none" THEN t
            ELSE LET v == NormValue(items[j])
                 IN IF v.exc # "none" THEN v
                    ELSE GroupLoop(items, j + 1, phase_name,
                            IF t.val # <<>> /\ v.val # <<>> /\ Truthy(phase_name)
                            THEN DictSet(mapping, <<t.val, v.val>>, phase_name)
                            ELSE mapping)

\* The outer loop of to_phase_map, over the groups.
RECURSIVE PhaseLoop(_, _, _)
PhaseLoop(phases, i, mapping) ==
    IF i > Len(phases) THEN Ok(mapping)
    ELSE LET p == phases[i]
         IN IF p.k # "dict" THEN Raise("AttributeError")
            ELSE LET phase_name == DictGet(p, "phase", JStr(<<>>))
                     got == DictGet(p, "artifacts", EmptyList)
                     it == Iter(IF Truthy(got) THEN got ELSE EmptyList)
                 IN IF it.exc # "none" THEN it
                    ELSE LET m == GroupLoop(it.val, 1, phase_name, mapping)
                         IN IF m.exc # "none" THEN m
                            ELSE PhaseLoop(phases, i + 1, m.val)

to_phase_map(kill_chain_obj) ==
    LET phases == IF kill_chain_obj.k = "dict"
                  THEN DictGet(kill_chain_obj, "kill_chain_mapping", EmptyList)
                  ELSE EmptyList
        it == Iter(phases)
    IN IF it.exc # "none" THEN it ELSE PhaseLoop(it.val, 1, <<>>)

\* main, lines 80 and 86: doc.get(key, {}) handed to an extractor.
Substructure(d, key) ==
    IF d.k # "dict" THEN Raise("AttributeError") ELSE Ok(DictGet(d, key, EmptyDict))

ArtifactSetOf(d) ==
    LET sub == Substructure(d, "artifacts")
    IN IF sub.exc # "none" THEN sub ELSE to_artifact_set(sub.val)

PhaseMapOf(d) ==
    LET sub == Substructure(d, "kill_chain_analysis")
    IN IF sub.exc # "none" THEN sub ELSE to_phase_map(sub.val)

(***************************************************************************)
(* Response text.  A text is a sequence of tokens, each standing for a     *)
(* fixed run of characters:                                                *)
(*   Space      " "                 Prose      a word such as  Here        *)
(*   Fence      ```                 Marker     ```json                     *)
(*   TokObj     {}                  TokArr     [1]                         *)
(*   QuoteOpen  {"n":"              QuoteClose "}                          *)
(*   TokArtifacts  {"artifacts":[{"type":"a","value":"b"}]}                *)
(*   TokReasoning  {"reasoning_chains":[]}                                 *)
(*   TokMapping    {"reasoning_chains":[],"kill_chain_mapping":            *)
(*                  [{"phase":"P","artifacts":[{"type":"a","value":"b"}]}]} *)
(* Backticks occur in Fence and Marker only, so a search for ``` or        *)
(* ```json finds a match exactly at the start of such a token.             *)
(***************************************************************************)
Space == "Space"
Prose == "Prose"
Fence == "Fence"
Marker == "Marker"
TokObj == "TokObj"
TokArr == "TokArr"
QuoteOpen == "QuoteOpen"
QuoteClose == "QuoteClose"
TokArtifacts == "TokArtifacts"
TokReasoning == "TokReasoning"
TokMapping == "TokMapping"

\* The tokens that are a complete JSON text, and the tokens that hold no quote
\* and may stand inside a JSON string.
JsonToks == {TokObj, TokArr, TokArtifacts, TokReasoning, TokMapping}
QuoteFree == {Space, Prose, Fence, Marker, TokObj, TokArr}

\* The value each JSON token parses to.
TokValue(t) ==
    CASE t = TokObj -> EmptyDict
      [] t = TokArr -> JList(<<JNum(1)>>)
      [] t = TokArtifacts ->
            JDict([artifacts |-> JList(<<JDict([type |-> JStr(<<"a">>),
                                                value |-> JStr(<<"b">>)])>>)])
      [] t = TokReasoning -> JDict([reasoning_chains |-> EmptyList])
      [] t = TokMapping ->
            JDict([reasoning_chains |-> EmptyList,
                   kill_chain_mapping |->
                       JList(<<JDict([phase |-> JStr(<<"P">>),
                                      artifacts |->
                                          JList(<<JDict([type |-> JStr(<<"a">>),
                                                         value |-> JStr(<<"b">>)])>>)])>>)])

\* str.strip() on a text.
RECURSIVE LStripText(_)
LStripText(t) == IF t # <<>> /\ Head(t) = Space THEN LStripText(Tail(t)) ELSE t
RECURSIVE RStripText(_)
RStripText(t) == IF t # <<>> /\ t[Len(t)] = Space
                 THEN RStripText(SubSeq(t, 1, Len(t) - 1)) ELSE t
StripText(t) == RStripText(LStripText(t))

\* json.loads: the text, surrounding whitespace aside, is one JSON token, or one
\* object holding a string ({"n":"..."}); anything else raises JSONDecodeError,
\* which records the text it was given.
JsonLoads(text) ==
    LET t == StripText(text)
    IN IF Len(t) = 1 /\ t[1] \in JsonToks THEN Ok(TokValue(t[1]))
       ELSE IF /\ Len(t) >= 2 /\ t[1] = QuoteOpen /\ t[Len(t)] = QuoteClose
               /\ \A i \in 2..(Len(t) - 1) : t[i] \in QuoteFree
            THEN Ok(JDict([n |-> JStr(SubSeq(t, 2, Len(t) - 1))]))
       ELSE [exc |-> "JSONDecodeError", doc |-> text]

\* text.find(token set, start): the first index >= start holding a token of
\* the set, NotFound if there is none.  Indices count tokens from 1.
NotFound == 0 - 1
Find(text, toks, start) ==
    LET hits == {i \in start..Len(text) : text[i] \in toks}
    IN IF hits = {} THEN NotFound ELSE CHOOSE i \in hits : \A j \in hits : i <= j

\* len(value.get(key, [])), the count each stage prints before it returns.
CountOf(v, key) ==
    IF v.k # "dict" THEN Raise("AttributeError")
    ELSE LET got == DictGet(v, key, EmptyList)
         IN IF got.k \in {"list", "str", "dict"} THEN Ok(got) ELSE Raise("TypeError")

\* The key each stage counts.
CountKey(st) == IF st = 1 THEN "artifacts" ELSE "reasoning_chains"

\* A stage returns its value, or prints the error and calls sys.exit(1).
Returned(v, attempts) ==
    [outcome |-> "return", value |-> v, parsed |-> Ok(v), attempts |-> attempts]
Exited(kind, cause, parsed, attempts) ==
    [outcome |-> "exit", raised |-> [kind |-> kind, cause |-> cause],
     parsed |-> parsed, attempts |-> attempts]
NoCause == [exc |-> "none"]
NothingParsed == [exc |-> "nothing_parsed"]

\* The statements after a successful json.loads: count, print, return.
CountAndReturn(v, key, attempts) ==
    IF CountOf(v, key).exc = "none" THEN Returned(v, attempts)
    ELSE Exited(CountOf(v, key).exc, NoCause, Ok(v), attempts)

\* raise Exception(f"Failed to parse JSON response: {e}"), caught by the stage's
\* own handler: printed, then sys.exit(1).
ParseFailure(e, attempts) == Exited("Exception", e, NothingParsed, attempts)

\* Mutant: the fenced block is tried before the whole text.
ParseResponse_fence_first(response_text, key) ==
    LET json_start == Find(response_text, {Marker}, 1) + 1
        json_end == Find(response_text, {Fence, Marker}, json_start)
        json_text == StripText(SubSeq(response_text, json_start, json_end - 1))
        whole == JsonLoads(response_text)
    IN IF /\ Find(response_text, {Marker}, 1) # NotFound
          /\ json_end > json_start
          /\ JsonLoads(json_text).exc = "none"
       THEN CountAndReturn(JsonLoads(json_text).val, key, <<json_text>>)
       ELSE IF whole.exc = "none"
       THEN CountAndReturn(whole.val, key, <<response_text>>)
       ELSE ParseFailure(whole, <<response_text>>)

\* Mutant: the recovery reads the last fenced block, not the first.
ParseResponse_last_block(response_text, key) ==
    LET e == JsonLoads(response_text)
        markers == {i \in 1..Len(response_text) : response_text[i] = Marker}
        json_start == (CHOOSE i \in markers : \A j \in markers : j <= i) + 1
        json_end == Find(response_text, {Fence, Marker}, json_start)
        json_text == StripText(SubSeq(response_text, json_start, json_end - 1))
    IN IF e.exc = "none" THEN CountAndReturn(e.val, key, <<response_text>>)
       ELSE IF markers # {} /\ json_end > json_start
       THEN IF JsonLoads(json_text).exc = "none"
            THEN CountAndReturn(JsonLoads(json_text).val, key,
                                <<response_text, json_text>>)
            ELSE ParseFailure(e, <<response_text, json_text>>)
       ELSE ParseFailure(e, <<response_text>>)

\* Lines 137-158 and 299-320: the parsing of the trimmed response text.
ParseResponse(response_text, key) ==
    LET e == JsonLoads(response_text)
        json_start == Find(response_text, {Marker}, 1) + 1
        json_end == Find(response_text, {Fence, Marker}, json_start)
        json_text == StripText(SubSeq(response_text, json_start, json_end - 1))
    IN IF e.exc = "none" THEN CountAndReturn(e.val, key, <<response_text>>)
       ELSE IF Find(response_text, {Marker}, 1) # NotFound /\ json_end > json_start
       THEN IF JsonLoads(json_text).exc = "none"
            THEN CountAndReturn(JsonLoads(json_text).val, key,
                                <<response_text, json_text>>)
            ELSE ParseFailure(e, <<response_text, json_text>>)
       ELSE ParseFailure(e, <<response_text>>)

\* Lines 134-162 and 296-324: response.choices[0].message.content.strip(), then
\* the parsing.  A message without content is None, which has no strip.
NoContent == <<"None">>
StageParse(c, st) ==
    IF c = NoContent THEN Exited("AttributeError", NoCause, NothingParsed, <<>>)
    ELSE ParseResponse(StripText(c), CountKey(st))

(***************************************************************************)
(* SpecPRF: precision_recall_f1 on every pair of artifact sets over a      *)
(* bounded universe of identity pairs, called as main calls it             *)
(* (pred, truth) and with the arguments swapped.                           *)
(***************************************************************************)
MaxValues == 2
ArtifactTypes == {"hash", "ip"}
IdentityPairs == ArtifactTypes \X (1..MaxValues)

PRFIdle == pred = {} /\ truth = {} /\ prf = NotCalled /\ prfSwapped = NotCalled

DocIdle == doc = JNull /\ aset = NotCalled /\ pmap = NotCalled

StageIdle == content = <<>> /\ stage = 0 /\ stageRes = NotCalled

NormIdle == artifact = JNull /\ a_norm = NotCalled /\ a_renorm = NotCalled

\* Nothing run, nothing written.
NoValue == [k |-> "none"]
RunStart ==
    /\ gen_calls = [st \in {1, 2} |-> 0]
    /\ response = [st \in {1, 2} |-> <<>>]
    /\ stage_outcome = [st \in {1, 2} |-> "not_run"]
    /\ artifacts_result = NoValue
    /\ reasoning_arg = NoValue
    /\ reasoning_result = NoValue
    /\ displayed = FALSE
    /\ summary_file = FALSE
    /\ json_file = NoValue
    /\ exit_code = 0 - 1
RunIdle == pc = "idle" /\ env = <<>> /\ RunStart

EvalStart ==
    /\ loaded = [f \in {"pred", "truth"} |-> NoValue]
    /\ scores = NoValue
    /\ stdout = <<>>
    /\ eval_exit = 0 - 1
EvalIdle == epc = "idle" /\ files = <<>> /\ EvalStart

MapIdle == pred_map = <<>> /\ truth_map = <<>> /\ acc = NotCalled

PRFInit ==
    /\ MapIdle /\ DocIdle /\ StageIdle /\ RunIdle /\ EvalIdle /\ NormIdle
    /\ pred \in SUBSET IdentityPairs
    /\ truth \in SUBSET IdentityPairs
    /\ prf = NotCalled
    /\ prfSwapped = NotCalled

CallPRF ==
    /\ prf = NotCalled
    /\ prf' = precision_recall_f1(pred, truth)
    /\ UNCHANGED <<normVars, pred, truth, prfSwapped, mapVars, docVars, stageVars, runVars, evalVars>>

CallPRFSwapped ==
    /\ prfSwapped = NotCalled
    /\ prfSwapped' = precision_recall_f1(truth, pred)
    /\ UNCHANGED <<normVars, pred, truth, prf, mapVars, docVars, stageVars, runVars, evalVars>>

PRFNext == CallPRF \/ CallPRFSwapped
SpecPRF == PRFInit /\ [][PRFNext]_vars

(***************************************************************************)
(* C1: for every pair of artifact sets, precision_recall_f1 raises no      *)
(* division error and returns precision = tp/(tp+fp) (0 when tp+fp = 0),   *)
(* recall = tp/(tp+fn) (0 when tp+fn = 0) and f1 = 2pr/(p+r) (0 when       *)
(* p+r = 0); an empty side against a non-empty one scores (0, 0, 0).       *)
(* The quotients are stated by cross-multiplication.                       *)
(***************************************************************************)
C1_Scores ==
    prf # NotCalled =>
        LET tp == Cardinality({x \in pred : x \in truth})
            fp == Cardinality({x \in pred : x \notin truth})
            fn == Cardinality({x \in truth : x \notin pred})
        IN /\ prf.exc = "none"
           /\ LET p == prf.precision
                  r == prf.recall
                  f == prf.f1
                  sumN == p.n * r.d + r.n * p.d   \* p + r = sumN / sumD
                  sumD == p.d * r.d
              IN /\ p.d > 0 /\ r.d > 0 /\ f.d > 0
                 /\ IF tp + fp > 0 THEN p.n * (tp + fp) = tp * p.d ELSE p.n = 0
                 /\ IF tp + fn > 0 THEN r.n * (tp + fn) = tp * r.d ELSE r.n = 0
                 /\ IF sumN > 0
                    THEN f.n * sumN * (p.d * r.d) = 2 * p.n * r.n * sumD * f.d
                    ELSE f.n = 0
                 /\ ((pred = {} /\ truth # {}) \/ (pred # {} /\ truth = {}))
                        => (p.n = 0 /\ r.n = 0 /\ f.n = 0)

\* Witness: an empty prediction was scored against a non-empty truth.
C1_Witness == prf # NotCalled /\ pred = {} /\ truth # {}

(***************************************************************************)
(* C10: precision_recall_f1(truth, pred) has the precision and recall of   *)
(* precision_recall_f1(pred, truth) exchanged and the same f1.             *)
(***************************************************************************)
C10_SwapSymmetry ==
    (prf # NotCalled /\ prfSwapped # NotCalled) =>
        /\ prf.exc = "none" /\ prfSwapped.exc = "none"
        /\ prfSwapped.precision = prf.recall
        /\ prfSwapped.recall = prf.precision
        /\ prfSwapped.f1 = prf.f1

\* Witness: both calls were made on sets with unequal precision and recall.
C10_Witness ==
    /\ prf # NotCalled /\ prfSwapped # NotCalled
    /\ prf.exc = "none" /\ prf.precision # prf.recall /\ prf.f1.n > 0

(***************************************************************************)
(* SpecMap: mapping_accuracy on every pair of phase maps over a bounded    *)
(* set of keys and three labels, two of which differ only in letter case.  *)
(***************************************************************************)
MaxKeys == 3
MapKeys == {"ip"} \X (1..MaxKeys)
PhaseLabels == {"Persistence", "persistence", "Exfiltration"}
PhaseMaps == UNION {[K -> PhaseLabels] : K \in SUBSET MapKeys}

MapInit ==
    /\ PRFIdle /\ DocIdle /\ StageIdle /\ RunIdle /\ EvalIdle /\ NormIdle
    /\ pred_map \in PhaseMaps
    /\ truth_map \in PhaseMaps
    /\ acc = NotCalled

CallMappingAccuracy ==
    /\ acc = NotCalled
    /\ acc' = mapping_accuracy(pred_map, truth_map)
    /\ UNCHANGED <<normVars, pred_map, truth_map, prfVars, docVars, stageVars, runVars, evalVars>>

MapNext == CallMappingAccuracy
SpecMap == MapInit /\ [][MapNext]_vars

\* f restricted to the keys in K.
Restrict(f, K) == [k \in K |-> f[k]]

(***************************************************************************)
(* C2: mapping_accuracy is computed over K = keys(truth) \cap keys(pred)   *)
(* only: 0 when K is empty, otherwise the number of keys of K on which the *)
(* two labels are exactly equal, divided by |K|; keys held by one map only *)
(* do not change the result.                                               *)
(***************************************************************************)
C2_SharedKeysOnly ==
    acc # NotCalled =>
        LET K == {k \in DOMAIN truth_map : k \in DOMAIN pred_map}
            agree == {k \in K : pred_map[k] = truth_map[k]}
        IN /\ acc.d > 0
           /\ IF K = {} THEN acc.n = 0
              ELSE acc.n * Cardinality(K) = Cardinality(agree) * acc.d
           /\ acc = mapping_accuracy(Restrict(pred_map, K), Restrict(truth_map, K))

\* Witness: a shared key carries labels that differ only in case, and each map
\* holds a key the other lacks.
C2_Witness ==
    /\ acc # NotCalled
    /\ \E k \in (DOMAIN pred_map) \cap (DOMAIN truth_map) :
           pred_map[k] = "Persistence" /\ truth_map[k] = "persistence"
    /\ (DOMAIN pred_map) \ (DOMAIN truth_map) # {}
    /\ (DOMAIN truth_map) \ (DOMAIN pred_map) # {}

(***************************************************************************)
(* SpecDoc: one parsed document, from which main extracts the artifact set *)
(* (line 80) and the phase map (line 86).  The documents are               *)
(*   - artifact lists over four artifacts and kill-chain group lists over  *)
(*     three of them, two of which spell the same identity pair            *)
(*     differently, and                                                    *)
(*   - the malformed shapes: a missing key, a value that is no mapping, a  *)
(*     missing or null list, elements that are no mappings or lack a       *)
(*     string type, value or phase.                                        *)
(***************************************************************************)
MaxArtifacts == 2      \* artifacts in a document's artifact list
MaxGroups == 2         \* groups in kill_chain_mapping
MaxGroupItems == 1     \* artifacts in one group

\* A key left out of a dict under construction.
Absent == [k |-> "absent"]
\* The dict of the (key, value) pairs in P whose value is not Absent.
MkDict(P) ==
    JDict([key \in {q[1] : q \in {r \in P : r[2] # Absent}} |->
              (CHOOSE q \in P : q[1] = key)[2]])
SeqsUpTo(S, n) == UNION {[1..m -> S] : m \in 0..n}

\* Phase labels: "IA" stands for Initial Access, "P" for Persistence.
PhaseIA == JStr(<<"I", "A">>)
PhaseP == JStr(<<"P">>)

Artifact(t, v) == MkDict({<<"type", t>>, <<"value", v>>})
ArtifactAB == Artifact(JStr(<<"a">>), JStr(<<"b">>))             \* (a, b)
\* (a, b) again, in another spelling and with fields of its own.
ArtifactAB2 ==
    JDict([type |-> JStr(<<" ", "A">>), value |-> JStr(<<"b", " ">>),
           properties |-> JDict([p |-> JNum(1)]), context |-> JStr(<<"P">>),
           confidence |-> JStr(<<"b">>)])
ArtifactAUpperB == Artifact(JStr(<<"a">>), JStr(<<"B">>))        \* (a, B)
ArtifactNoType == Artifact(JStr(<<" ">>), JStr(<<"b">>))         \* dropped
Artifacts == {ArtifactAB, ArtifactAB2, ArtifactAUpperB, ArtifactNoType}

GroupPhases == {Absent, JStr(<<>>), PhaseIA, PhaseP}
GroupArtifacts == {ArtifactAB, ArtifactAB2, ArtifactAUpperB}
Group(ph, xs) == IF ph = Absent THEN JDict([artifacts |-> JList(xs)])
                 ELSE JDict([phase |-> ph, artifacts |-> JList(xs)])
Groups == {Group(ph, xs) :
              ph \in GroupPhases, xs \in SeqsUpTo(GroupArtifacts, MaxGroupItems)}

ArtifactDocs ==
    {JDict([artifacts |-> JDict([artifacts |-> JList(xs)])]) :
        xs \in SeqsUpTo(Artifacts, MaxArtifacts)}
KillChainDocs ==
    {JDict([kill_chain_analysis |-> JDict([kill_chain_mapping |-> JList(gs)])]) :
        gs \in SeqsUpTo(Groups, MaxGroups)}

\* Malformed shapes.
FieldShapes == {Absent, JNull, JNum(5), JStr(<<>>), JStr(<<"a">>)}
NonMappings == {JNull, JNum(5), JStr(<<"a", "b">>), EmptyList}
ElementShapes ==
    {JNull, JNum(5), JStr(<<"a">>)} \cup {Artifact(t, v) : t, v \in FieldShapes}
ListShapes ==
    {Absent, JNull, JNum(5), JStr(<<>>), JStr(<<"a", "b">>), EmptyDict, EmptyList}
        \cup {JList(<<e>>) : e \in ElementShapes}
        \cup {JList(<<ArtifactAB, e>>) : e \in {JNull, Artifact(Absent, Absent)}}
ArtifactsShapes ==
    {Absent} \cup NonMappings \cup {MkDict({<<"artifacts", l>>}) : l \in ListShapes}
GroupShapes ==
    {JNull, JNum(5), JStr(<<"a">>)}
        \cup {MkDict({<<"phase", ph>>, <<"artifacts", l>>}) :
                 ph \in {Absent, JNull, JNum(5), JStr(<<>>), PhaseP}, l \in ListShapes}
KillChainShapes ==
    {Absent} \cup NonMappings
        \cup {MkDict({<<"kill_chain_mapping", l>>}) :
                 l \in {Absent, JNull, JNum(5), JStr(<<"a", "b">>), EmptyDict}
                       \cup {JList(<<g>>) : g \in GroupShapes}}
ShapeDocs ==
    {MkDict({<<"artifacts", x>>}) : x \in ArtifactsShapes}
        \cup {MkDict({<<"kill_chain_analysis", y>>}) : y \in KillChainShapes}

Docs == ArtifactDocs \cup KillChainDocs \cup ShapeDocs

DocInit ==
    /\ PRFIdle /\ MapIdle /\ StageIdle /\ RunIdle /\ EvalIdle /\ NormIdle
    /\ doc \in Docs
    /\ aset = NotCalled
    /\ pmap = NotCalled

ExtractArtifactSet ==
    /\ aset = NotCalled
    /\ aset' = ArtifactSetOf(doc)
    /\ UNCHANGED <<normVars, doc, pmap, prfVars, mapVars, stageVars, runVars, evalVars>>

\* Reached only when the artifact set was extracted without an exception.
ExtractPhaseMap ==
    /\ aset # NotCalled /\ aset.exc = "none"
    /\ pmap = NotCalled
    /\ pmap' = PhaseMapOf(doc)
    /\ UNCHANGED <<normVars, doc, aset, prfVars, mapVars, stageVars, runVars, evalVars>>

DocNext == ExtractArtifactSet \/ ExtractPhaseMap
SpecDoc == DocInit /\ [][DocNext]_vars

\* What the claims below read off a document.
Has(d, key) == d.k = "dict" /\ key \in DOMAIN d.f
IsText(v) == v.k = "str"
IsArtifact(a) ==
    /\ Has(a, "type") /\ IsText(a.f["type"])
    /\ Has(a, "value") /\ IsText(a.f["value"])
IsGroup(g) ==
    /\ Has(g, "artifacts") /\ g.f["artifacts"].k = "list"
    /\ \A n \in 1..Len(g.f["artifacts"].items) : IsArtifact(g.f["artifacts"].items[n])
    /\ Has(g, "phase") => IsText(g.f["phase"])
\* A document whose kill_chain_mapping is a list of groups of artifacts.
HasGroups(d) ==
    /\ Has(d, "kill_chain_analysis")
    /\ Has(d.f["kill_chain_analysis"], "kill_chain_mapping")
    /\ d.f["kill_chain_analysis"].f["kill_chain_mapping"].k = "list"
    /\ LET gs == d.f["kill_chain_analysis"].f["kill_chain_mapping"].items
       IN \A n \in 1..Len(gs) : IsGroup(gs[n])
GroupsOf(d) == d.f["kill_chain_analysis"].f["kill_chain_mapping"].items
\* The group's phase name; none is the empty name.
PhaseOf(g) == IF Has(g, "phase") THEN g.f["phase"] ELSE JStr(<<>>)
IdentityOf(a) == <<Lower(Strip(a.f["type"].s)), Strip(a.f["value"].s)>>
\* The identity pairs that appear under a group.
PairsOf(g) ==
    {id \in {IdentityOf(g.f["artifacts"].items[n]) : n \in 1..Len(g.f["artifacts"].items)} :
        id[1] # <<>> /\ id[2] # <<>>}
Holders(d, id) == {n \in 1..Len(GroupsOf(d)) : id \in PairsOf(GroupsOf(d)[n])}
Largest(S) == CHOOSE n \in S : \A m \in S : m <= n
\* The identity pairs that appear under two groups or more.
SharedPairs(d) ==
    {id \in UNION {PairsOf(GroupsOf(d)[n]) : n \in 1..Len(GroupsOf(d))} :
        Cardinality(Holders(d, id)) >= 2}

(***************************************************************************)
(* C3, as claimed: an identity pair that appears under two groups of       *)
(* kill_chain_mapping, each carrying a phase entry, and that the phase map *)
(* holds, is mapped to the phase of the later group: the last group in     *)
(* list order that holds the pair.                                         *)
(***************************************************************************)
C3_LaterGroupWins ==
    (pmap # NotCalled /\ HasGroups(doc)) =>
        /\ pmap.exc = "none"
        /\ \A id \in SharedPairs(doc) :
              (/\ \A n \in Holders(doc, id) : Has(GroupsOf(doc)[n], "phase")
               /\ id \in DOMAIN pmap.val)
                  => pmap.val[id] = PhaseOf(GroupsOf(doc)[Largest(Holders(doc, id))])

(***************************************************************************)
(* C3, amended: an identity pair that appears under two groups is mapped   *)
(* to the phase of the last group in list order that holds it and has a    *)
(* non-empty phase name; groups with a missing or empty phase name write   *)
(* nothing, and the pair is unmapped when no group that holds it is named. *)
(***************************************************************************)
C3_LastNamedGroupWins ==
    (pmap # NotCalled /\ HasGroups(doc)) =>
        /\ pmap.exc = "none"
        /\ \A id \in SharedPairs(doc) :
              LET named == {n \in Holders(doc, id) : Truthy(PhaseOf(GroupsOf(doc)[n]))}
              IN IF named = {} THEN id \notin DOMAIN pmap.val
                 ELSE /\ id \in DOMAIN pmap.val
                      /\ pmap.val[id] = PhaseOf(GroupsOf(doc)[Largest(named)])

\* Witness: the pair (a, b), spelled in two ways, appears under Initial Access
\* and then under Persistence, and the phase map was built.
C3_Witness ==
    /\ pmap # NotCalled /\ HasGroups(doc) /\ Len(GroupsOf(doc)) = 2
    /\ GroupsOf(doc)[1] = Group(PhaseIA, <<ArtifactAB>>)
    /\ GroupsOf(doc)[2] = Group(PhaseP, <<ArtifactAB2>>)
    /\ pmap.exc = "none"
    /\ pmap.val[<<(<<"a">>), (<<"b">>)>>] = PhaseP

(***************************************************************************)
(* C4, as claimed: for every shape of the artifacts and                    *)
(* kill_chain_analysis substructures of a parsed document (a mapping),     *)
(* to_artifact_set and to_phase_map raise nothing and return a set or map. *)
(***************************************************************************)
C4_NoExceptionOnMalformed ==
    doc.k = "dict" =>
        /\ aset # NotCalled => aset.exc = "none"
        /\ pmap # NotCalled => pmap.exc = "none"

(***************************************************************************)
(* SpecStage: the parsing of one response by one stage, for every response *)
(* text of at most MaxTextLen tokens.                                      *)
(***************************************************************************)
MaxTextLen == 5
TextTokens == {Space, Prose, Fence, Marker, TokObj, TokArr, QuoteOpen, QuoteClose}
Texts == UNION {[1..m -> TextTokens] : m \in 0..MaxTextLen}

StageInit ==
    /\ PRFIdle /\ MapIdle /\ DocIdle /\ RunIdle /\ EvalIdle /\ NormIdle
    /\ content \in Texts \cup {NoContent}
    /\ stage \in {1, 2}
    /\ stageRes = NotCalled

ParseStage ==
    /\ stageRes = NotCalled
    /\ stageRes' = StageParse(content, stage)
    /\ UNCHANGED <<normVars, content, stage, prfVars, mapVars, docVars, runVars, evalVars>>

StageNext == ParseStage
SpecStage == StageInit /\ [][StageNext]_vars

\* What the claims below read off a response text.
Trimmed == StripText(content)
HasMarker(t) == \E i \in 1..Len(t) : t[i] = Marker
FirstMarker(t) == CHOOSE i \in 1..Len(t) : t[i] = Marker /\ \A j \in 1..(i - 1) : t[j] # Marker
Closers(t) == {j \in (FirstMarker(t) + 1)..Len(t) : t[j] \in {Fence, Marker}}
FirstCloser(t) == CHOOSE j \in Closers(t) : \A m \in Closers(t) : j <= m
\* The first fenced block has a closing fence and text before it.
HasBlock(t) == HasMarker(t) /\ Closers(t) # {} /\ FirstCloser(t) > FirstMarker(t) + 1
\* The trimmed text strictly between the first marker and the next fence.
BlockText(t) == StripText(SubSeq(t, FirstMarker(t) + 1, FirstCloser(t) - 1))
Parses(t) == JsonLoads(t).exc = "none"
\* A parsed value the stage can count and return: an object whose counted entry
\* is missing or sized.
Countable(v, st) ==
    /\ v.k = "dict"
    /\ CountKey(st) \in DOMAIN v.f => v.f[CountKey(st)].k \in {"list", "str", "dict"}

(***************************************************************************)
(* C5: parsing tries the whole trimmed response first, and the trimmed     *)
(* content of the first fenced block only when that failed and the text    *)
(* holds a ```json marker; the first attempt that parses ends the search   *)
(* and hands on its value; when none parses, the failure raised reports    *)
(* the error of the first attempt.  Bare JSON returns its object, the same *)
(* JSON in prose and a fence returns the same object, text with no JSON    *)
(* raises the failure.                                                     *)
(***************************************************************************)
C5_OrderedAttempts ==
    (stageRes # NotCalled /\ content # NoContent) =>
        LET a == stageRes.attempts
        IN /\ Len(a) \in {1, 2}
           /\ a[1] = Trimmed
           /\ Len(a) = 2 <=> (~Parses(Trimmed) /\ HasBlock(Trimmed))
           /\ Len(a) = 2 => a[2] = BlockText(Trimmed)
           /\ Parses(a[1]) => stageRes.parsed = JsonLoads(a[1])
           /\ (Len(a) = 2 /\ Parses(a[2])) => stageRes.parsed = JsonLoads(a[2])
           /\ (\A i \in 1..Len(a) : ~Parses(a[i])) =>
                 /\ stageRes.outcome = "exit"
                 /\ stageRes.raised = [kind |-> "Exception", cause |-> JsonLoads(Trimmed)]
           /\ (stageRes.parsed.exc = "none" /\ Countable(stageRes.parsed.val, stage)) =>
                 (stageRes.outcome = "return" /\ stageRes.value = stageRes.parsed.val)
           /\ content = <<TokObj>> =>
                 (stageRes.outcome = "return" /\ stageRes.value = EmptyDict)
           /\ content = <<Prose, Marker, Space, TokObj, Fence>> =>
                 (stageRes.outcome = "return" /\ stageRes.value = EmptyDict)
           /\ content = <<Prose>> =>
                 (stageRes.outcome = "exit" /\ stageRes.raised.kind = "Exception")

\* Witness: the whole text parses although it holds a fenced block that parses
\* too, and the stage has returned.
C5_Witness ==
    /\ stageRes # NotCalled /\ content # NoContent
    /\ Parses(Trimmed) /\ HasBlock(Trimmed) /\ Parses(BlockText(Trimmed))
    /\ stageRes.outcome = "return"

(***************************************************************************)
(* C6, as claimed: whenever the trimmed response parses as JSON, or its    *)
(* first fenced block does, the stage returns that parsed value and does   *)
(* not fail, whatever JSON value it is.                                    *)
(***************************************************************************)
C6_ParsedValueIsReturned ==
    (stageRes # NotCalled /\ content # NoContent) =>
        /\ Parses(Trimmed) =>
              (stageRes.outcome = "return" /\ stageRes.value = JsonLoads(Trimmed).val)
        /\ (~Parses(Trimmed) /\ HasBlock(Trimmed) /\ Parses(BlockText(Trimmed))) =>
              (stageRes.outcome = "return"
                  /\ stageRes.value = JsonLoads(BlockText(Trimmed)).val)

(***************************************************************************)
(* SpecPipeline: one run of forensic_analyzer's main.  The inputs are the  *)
(* report file (missing, unreadable or readable), GROQ_API_KEY (set or     *)
(* not), --output-json, whether the outputs folder can be written, and     *)
(* what each generation call does: it raises, or it answers with one of a  *)
(* few contents.  sys.exit(1) inside a stage ends the process: SystemExit  *)
(* passes main's "except Exception".                                       *)
(***************************************************************************)
ReportStates == {"missing", "unreadable", "readable"}
Envs == [report : ReportStates, api_key : BOOLEAN, output_json : BOOLEAN,
         outputs_writable : BOOLEAN]

\* What the generation capability may answer to Stage 1 and to Stage 2.
Stage1Contents ==
    {<<TokArtifacts>>, <<TokObj>>, <<Space, TokArtifacts, Space>>,
     <<Prose, Marker, Space, TokArtifacts, Fence>>, <<QuoteOpen, Prose, QuoteClose>>,
     <<Prose>>, <<Marker, Prose, Fence>>, <<TokArr>>, NoContent}
Stage2Contents ==
    {<<TokReasoning>>, <<TokObj>>, <<Prose, Marker, TokReasoning, Fence>>,
     <<Prose>>, <<Marker, TokReasoning>>, <<TokArr>>, <<TokMapping>>, NoContent}

\* How a stage that called sys.exit(1) failed.
FailureOf(res) ==
    IF res.raised.kind = "Exception" THEN "malformed_response" ELSE "error"

Exit(code) == pc' = "exited" /\ exit_code' = code

RunInit ==
    /\ PRFIdle /\ MapIdle /\ DocIdle /\ StageIdle /\ EvalIdle /\ NormIdle
    /\ pc = "load_report"
    /\ env \in Envs
    /\ RunStart

\* Lines 437-447 and load_report: a missing or unreadable report ends the run.
LoadReport ==
    /\ pc = "load_report"
    /\ IF env.report = "readable"
       THEN pc' = "stage1_init" /\ UNCHANGED exit_code
       ELSE Exit(1)
    /\ UNCHANGED <<normVars, prfVars, mapVars, docVars, stageVars, evalVars, env, gen_calls, response, stage_outcome, artifacts_result,
                   reasoning_arg, reasoning_result, displayed, summary_file, json_file>>

\* Lines 450 and 53-59: ArtifactExtractorModule(); no API key ends the run.
Stage1Init ==
    /\ pc = "stage1_init"
    /\ IF env.api_key
       THEN pc' = "stage1_generate" /\ UNCHANGED exit_code
       ELSE Exit(1)
    /\ UNCHANGED <<normVars, prfVars, mapVars, docVars, stageVars, evalVars, env, gen_calls, response, stage_outcome, artifacts_result,
                   reasoning_arg, reasoning_result, displayed, summary_file, json_file>>

\* Mutant: a failed generation call of Stage 1 is issued again.
Stage1Generate_retry ==
    /\ pc = "stage1_generate"
    /\ gen_calls[1] < 2
    /\ gen_calls' = [gen_calls EXCEPT ![1] = @ + 1]
    /\ \/ /\ stage_outcome' = [stage_outcome EXCEPT ![1] = "running"]
          /\ UNCHANGED <<pc, exit_code, response>>
       \/ \E c \in Stage1Contents :
             /\ response' = [response EXCEPT ![1] = c]
             /\ stage_outcome' = [stage_outcome EXCEPT ![1] = "running"]
             /\ pc' = "stage1_parse" /\ UNCHANGED exit_code
    /\ UNCHANGED <<normVars, prfVars, mapVars, docVars, stageVars, evalVars, env, artifacts_result, reasoning_arg, reasoning_result,
                   displayed, summary_file, json_file>>

\* Lines 121-132 and 160-162: extract_artifacts calls the generation capability
\* once; an exception of the call is printed and ends the run.
Stage1Generate ==
    /\ pc = "stage1_generate"
    /\ gen_calls' = [gen_calls EXCEPT ![1] = @ + 1]
    /\ \/ /\ stage_outcome' = [stage_outcome EXCEPT ![1] = "generation_failure"]
          /\ Exit(1)
          /\ UNCHANGED response
       \/ \E c \in Stage1Contents :
             /\ response' = [response EXCEPT ![1] = c]
             /\ stage_outcome' = [stage_outcome EXCEPT ![1] = "running"]
             /\ pc' = "stage1_parse" /\ UNCHANGED exit_code
    /\ UNCHANGED <<normVars, prfVars, mapVars, docVars, stageVars, evalVars, env, artifacts_result, reasoning_arg, reasoning_result,
                   displayed, summary_file, json_file>>

\* Mutant: a Stage 1 that cannot parse its response hands None on to main.
Stage1Parse_continue ==
    /\ pc = "stage1_parse"
    /\ LET res == StageParse(response[1], 1)
       IN IF res.outcome = "return"
          THEN /\ artifacts_result' = res.value
               /\ stage_outcome' = [stage_outcome EXCEPT ![1] = "return"]
          ELSE /\ artifacts_result' = JNull
               /\ stage_outcome' = [stage_outcome EXCEPT ![1] = FailureOf(res)]
    /\ pc' = "stage2_init"
    /\ UNCHANGED <<normVars, prfVars, mapVars, docVars, stageVars, evalVars, env, gen_calls, response, reasoning_arg, reasoning_result,
                   displayed, summary_file, json_file, exit_code>>

\* Lines 134-162 and 451: the response is parsed; the value returned becomes
\* artifacts_result, a failure is printed and ends the run.
Stage1Parse ==
    /\ pc = "stage1_parse"
    /\ LET res == StageParse(response[1], 1)
       IN IF res.outcome = "return"
          THEN /\ artifacts_result' = res.value
               /\ stage_outcome' = [stage_outcome EXCEPT ![1] = "return"]
               /\ pc' = "stage2_init" /\ UNCHANGED exit_code
          ELSE /\ stage_outcome' = [stage_outcome EXCEPT ![1] = FailureOf(res)]
               /\ Exit(1)
               /\ UNCHANGED artifacts_result
    /\ UNCHANGED <<normVars, prfVars, mapVars, docVars, stageVars, evalVars, env, gen_calls, response, reasoning_arg, reasoning_result,
                   displayed, summary_file, json_file>>

\* Lines 454-455 and 177-182: ReasoningAndMappingModule(), then
\* reason_and_map(artifacts_result).  The key was read by Stage 1 already.
Stage2Init ==
    /\ pc = "stage2_init"
    /\ IF env.api_key
       THEN /\ pc' = "stage2_generate"
            /\ reasoning_arg' = artifacts_result
            /\ UNCHANGED exit_code
       ELSE Exit(1) /\ UNCHANGED reasoning_arg
    /\ UNCHANGED <<normVars, prfVars, mapVars, docVars, stageVars, evalVars, env, gen_calls, response, stage_outcome, artifacts_result,
                   reasoning_result, displayed, summary_file, json_file>>

\* Lines 280-294 and 322-324: reason_and_map embeds json.dumps(artifacts_json)
\* in the request and calls the generation capability once.
Stage2Generate ==
    /\ pc = "stage2_generate"
    /\ gen_calls' = [gen_calls EXCEPT ![2] = @ + 1]
    /\ \/ /\ stage_outcome' = [stage_outcome EXCEPT ![2] = "generation_failure"]
          /\ Exit(1)
          /\ UNCHANGED response
       \/ \E c \in Stage2Contents :
             /\ response' = [response EXCEPT ![2] = c]
             /\ stage_outcome' = [stage_outcome EXCEPT ![2] = "running"]
             /\ pc' = "stage2_parse" /\ UNCHANGED exit_code
    /\ UNCHANGED <<normVars, prfVars, mapVars, docVars, stageVars, evalVars, env, artifacts_result, reasoning_arg, reasoning_result,
                   displayed, summary_file, json_file>>

\* Lines 296-324.
Stage2Parse ==
    /\ pc = "stage2_parse"
    /\ LET res == StageParse(response[2], 2)
       IN IF res.outcome = "return"
          THEN /\ reasoning_result' = res.value
               /\ stage_outcome' = [stage_outcome EXCEPT ![2] = "return"]
               /\ pc' = "display" /\ UNCHANGED exit_code
          ELSE /\ stage_outcome' = [stage_outcome EXCEPT ![2] = FailureOf(res)]
               /\ Exit(1)
               /\ UNCHANGED reasoning_result
    /\ UNCHANGED <<normVars, prfVars, mapVars, docVars, stageVars, evalVars, env, gen_calls, response, artifacts_result, reasoning_arg,
                   displayed, summary_file, json_file>>

\* Line 458: print_analysis_results(reasoning_result).
Display ==
    /\ pc = "display"
    /\ displayed' = TRUE
    /\ pc' = "write_summary"
    /\ UNCHANGED <<normVars, prfVars, mapVars, docVars, stageVars, evalVars, env, gen_calls, response, stage_outcome, artifacts_result,
                   reasoning_arg, reasoning_result, summary_file, json_file, exit_code>>

\* Lines 460-500 and 524-526: the summary report; a folder that cannot be
\* written raises, which main prints before it exits.
WriteSummary ==
    /\ pc = "write_summary"
    /\ IF env.outputs_writable
       THEN summary_file' = TRUE /\ pc' = "write_json" /\ UNCHANGED exit_code
       ELSE Exit(1) /\ UNCHANGED summary_file
    /\ UNCHANGED <<normVars, prfVars, mapVars, docVars, stageVars, evalVars, env, gen_calls, response, stage_outcome, artifacts_result,
                   reasoning_arg, reasoning_result, displayed, json_file>>

\* Mutant: Stage 2's result is stored under the key the Evaluator reads.
CompleteResults_evaluator_key ==
    JDict([artifacts |-> artifacts_result,
           kill_chain_analysis |-> reasoning_result,
           source_file |-> JStr(<<"r">>),
           analysis_timestamp |-> JStr(<<"t">>),
           analysis_tool |-> JStr(<<"v">>),
           ontology_ready |-> JNum(1)])

\* Lines 506-513.
CompleteResults ==
    JDict([artifacts |-> artifacts_result,
           reasoning_and_mapping |-> reasoning_result,
           source_file |-> JStr(<<"r">>),
           analysis_timestamp |-> JStr(<<"t">>),
           analysis_tool |-> JStr(<<"v">>),
           ontology_ready |-> JNum(1)])

\* Lines 502-519, then the end of main.
WriteJson ==
    /\ pc = "write_json"
    /\ json_file' = IF env.output_json THEN CompleteResults ELSE json_file
    /\ pc' = "exited" /\ exit_code' = 0
    /\ UNCHANGED <<normVars, prfVars, mapVars, docVars, stageVars, evalVars, env, gen_calls, response, stage_outcome, artifacts_result,
                   reasoning_arg, reasoning_result, displayed, summary_file>>

RunNext ==
    \/ LoadReport \/ Stage1Init \/ Stage1Generate \/ Stage1Parse
    \/ Stage2Init \/ Stage2Generate \/ Stage2Parse
    \/ Display \/ WriteSummary \/ WriteJson
SpecPipeline == RunInit /\ [][RunNext]_vars

StageFailures == {"generation_failure", "malformed_response"}

(***************************************************************************)
(* C7: Stage 2 is invoked only after Stage 1 has returned, and with        *)
(* exactly the value Stage 1 returned (no validation); a stage issues one  *)
(* generation call per run, exactly one once it has ended, and never a     *)
(* second one after a generation or parse failure.                         *)
(***************************************************************************)
C7_SequentialSingleCall ==
    /\ (reasoning_arg # NoValue \/ stage_outcome[2] # "not_run" \/ gen_calls[2] > 0) =>
          /\ stage_outcome[1] = "return"
          /\ StageParse(response[1], 1).outcome = "return"
          /\ artifacts_result = StageParse(response[1], 1).value
          /\ reasoning_arg = artifacts_result
    /\ \A st \in {1, 2} :
          /\ gen_calls[st] <= 1
          /\ stage_outcome[st] # "not_run" => gen_calls[st] = 1
          /\ stage_outcome[st] \in StageFailures \cup {"error"} =>
                (pc = "exited" /\ gen_calls[st] = 1)

\* Witness: Stage 2 has made its call on a Stage 1 result that holds no
\* artifacts list.
C7_Witness ==
    /\ gen_calls[2] = 1 /\ stage_outcome[2] = "running"
    /\ ~Has(artifacts_result, "artifacts")
    /\ reasoning_arg = artifacts_result

(***************************************************************************)
(* C8: a generation failure or a malformed-response failure of either      *)
(* stage ends the run with a failure exit: nothing is displayed, no        *)
(* summary and no JSON file is written, and after a failure of Stage 1     *)
(* Stage 2 is never invoked.                                               *)
(***************************************************************************)
C8_StageFailureIsFatal ==
    /\ \A st \in {1, 2} :
          stage_outcome[st] \in StageFailures =>
             /\ pc = "exited" /\ exit_code = 1
             /\ ~displayed /\ ~summary_file /\ json_file = NoValue
    /\ stage_outcome[1] \in StageFailures =>
          (stage_outcome[2] = "not_run" /\ gen_calls[2] = 0 /\ reasoning_arg = NoValue)
    /\ (displayed \/ summary_file \/ json_file # NoValue) =>
          (stage_outcome[1] = "return" /\ stage_outcome[2] = "return")

\* Witness: Stage 2 failed on a malformed response after Stage 1 had returned.
C8_Witness ==
    /\ stage_outcome[1] = "return"
    /\ stage_outcome[2] = "malformed_response"
    /\ pc = "exited"

(***************************************************************************)
(* SpecEval: one run of evaluate.py's main.  Each of the two paths names a *)
(* file that is missing, a file that is not JSON, or a JSON document.      *)
(* An exception no handler catches ends the process with a traceback and   *)
(* exit status 1.                                                          *)
(***************************************************************************)
MissingFile == [k |-> "missing"]
NotJsonFile == [k |-> "not_json"]
LoadFailures == {MissingFile, NotJsonFile}
\* Documents that carry both substructures, and one that is no mapping.
ScoredDocs ==
    {JDict([artifacts |-> JDict([artifacts |-> JList(<<a>>)]),
            kill_chain_analysis |->
                JDict([kill_chain_mapping |-> JList(<<Group(ph, <<a>>)>>)])]) :
        a \in {ArtifactAB, ArtifactAUpperB}, ph \in {PhaseIA, PhaseP}}
EvalDocs == ArtifactDocs \cup ScoredDocs \cup {EmptyList}
EvalFiles == LoadFailures \cup EvalDocs

\* Mutant: a file that cannot be loaded yields an empty document.
load_json_lenient(file) ==
    IF file \in LoadFailures THEN Ok(EmptyDict) ELSE Ok(file)

\* load_json: the parsed document, or the error printed and sys.exit(1).
load_json(file) ==
    IF file \in LoadFailures THEN [exc |-> "SystemExit", code |-> 1] ELSE Ok(file)

EvalInit ==
    /\ PRFIdle /\ MapIdle /\ DocIdle /\ StageIdle /\ RunIdle /\ NormIdle
    /\ epc = "load_pred"
    /\ files \in [{"pred", "truth"} -> EvalFiles]
    /\ EvalStart

\* Lines 76 and 77: pred = load_json(args.pred), truth = load_json(args.truth).
Load(which, next) ==
    /\ LET r == load_json(files[which])
       IN IF r.exc = "none"
          THEN /\ loaded' = [loaded EXCEPT ![which] = r.val]
               /\ epc' = next
               /\ UNCHANGED <<stdout, eval_exit>>
          ELSE /\ stdout' = Append(stdout, "load_error")
               /\ epc' = "exited" /\ eval_exit' = r.code
               /\ UNCHANGED loaded
    /\ UNCHANGED <<normVars, files, scores, prfVars, mapVars, docVars, stageVars, runVars>>

LoadPred == epc = "load_pred" /\ Load("pred", "load_truth")
LoadTruth == epc = "load_truth" /\ Load("truth", "score")

\* Lines 80-88: the four extractions and the two scores, or the first exception.
Scores(p, t) ==
    LET pa == ArtifactSetOf(p)
        ta == ArtifactSetOf(t)
        pm == PhaseMapOf(p)
        tm == PhaseMapOf(t)
    IN IF pa.exc # "none" THEN pa
       ELSE IF ta.exc # "none" THEN ta
       ELSE IF pm.exc # "none" THEN pm
       ELSE IF tm.exc # "none" THEN tm
       ELSE Ok([prf |-> precision_recall_f1(pa.val, ta.val),
                acc |-> mapping_accuracy(pm.val, tm.val)])

Score ==
    /\ epc = "score"
    /\ LET r == Scores(loaded["pred"], loaded["truth"])
       IN IF r.exc = "none"
          THEN scores' = r.val /\ epc' = "print" /\ UNCHANGED eval_exit
          ELSE epc' = "exited" /\ eval_exit' = 1 /\ UNCHANGED scores
    /\ UNCHANGED <<normVars, files, loaded, stdout, prfVars, mapVars, docVars, stageVars, runVars>>

\* Lines 90-92: the header, the Precision/Recall/F1 line, the Mapping Accuracy line.
PrintResults ==
    /\ epc = "print"
    /\ stdout' = stdout \o <<"header", "precision_recall_f1", "mapping_accuracy">>
    /\ epc' = "exited" /\ eval_exit' = 0
    /\ UNCHANGED <<normVars, files, loaded, scores, prfVars, mapVars, docVars, stageVars, runVars>>

EvalNext == LoadPred \/ LoadTruth \/ Score \/ PrintResults
SpecEval == EvalInit /\ [][EvalNext]_vars

ScoreLines == {"precision_recall_f1", "mapping_accuracy"}
PrintedScore == \E i \in 1..Len(stdout) : stdout[i] \in ScoreLines

(***************************************************************************)
(* C9: when the predicted or the truth document fails to load, the process *)
(* exits non-zero at once (nothing further is loaded) and prints no score  *)
(* line; score lines are printed only after both documents have loaded.    *)
(***************************************************************************)
C9_LoadFailureIsFatal ==
    /\ (files["pred"] \in LoadFailures /\ epc # "load_pred") =>
          /\ epc = "exited" /\ eval_exit > 0
          /\ loaded["truth"] = NoValue
          /\ ~PrintedScore
    /\ (files["truth"] \in LoadFailures /\ epc \notin {"load_pred", "load_truth"}) =>
          /\ epc = "exited" /\ eval_exit > 0
          /\ scores = NoValue
          /\ ~PrintedScore
    /\ PrintedScore =>
          /\ files["pred"] \notin LoadFailures /\ loaded["pred"] = files["pred"]
          /\ files["truth"] \notin LoadFailures /\ loaded["truth"] = files["truth"]

\* Witness: the prediction loaded, the truth file did not, and the run has ended.
C9_Witness ==
    /\ loaded["pred"] # NoValue
    /\ files["truth"] = NotJsonFile
    /\ epc = "exited"

(***************************************************************************)
(* SpecNorm: the normalization of one artifact entry (lines 32-33, and     *)
(* again 45-46), applied to the entry and then to the entry made of its    *)
(* own result.  A field is left out, null, or a string of blanks and       *)
(* letters in both cases.                                                  *)
(***************************************************************************)
MaxFieldLen == 3
NormChars == {" ", "A", "a"}
RawFields == {Absent, JNull} \cup {JStr(s) : s \in SeqsUpTo(NormChars, MaxFieldLen)}
RawArtifacts == {Artifact(t, v) : t, v \in RawFields}

\* Lines 32-33: the pair (a_type, a_val) of one entry.
NormPair(a) ==
    LET t == NormType(a)
    IN IF t.exc # "none" THEN t
       ELSE LET v == NormValue(a)
            IN IF v.exc # "none" THEN v ELSE Ok(<<t.val, v.val>>)

NormInit ==
    /\ PRFIdle /\ MapIdle /\ DocIdle /\ StageIdle /\ RunIdle /\ EvalIdle
    /\ artifact \in RawArtifacts
    /\ a_norm = NotCalled
    /\ a_renorm = NotCalled

NormalizeEntry ==
    /\ a_norm = NotCalled
    /\ a_norm' = NormPair(artifact)
    /\ UNCHANGED <<artifact, a_renorm, prfVars, mapVars, docVars, stageVars, runVars, evalVars>>

\* The entry whose type and value are the normalized ones, normalized again.
RenormalizeEntry ==
    /\ a_norm # NotCalled /\ a_norm.exc = "none"
    /\ a_renorm = NotCalled
    /\ a_renorm' = NormPair(Artifact(JStr(a_norm.val[1]), JStr(a_norm.val[2])))
    /\ UNCHANGED <<artifact, a_norm, prfVars, mapVars, docVars, stageVars, runVars, evalVars>>

NormNext == NormalizeEntry \/ RenormalizeEntry
SpecNorm == NormInit /\ [][NormNext]_vars

\* The text of a raw field: empty when the field is left out or null.
FieldText(a, key) ==
    IF key \in DOMAIN a.f /\ a.f[key].k = "str" THEN a.f[key].s ELSE <<>>
Blank(s) == \A i \in 1..Len(s) : s[i] = " "
Edged(s) == s # <<>> /\ (s[1] = " " \/ s[Len(s)] = " ")

(***************************************************************************)
(* C11: normalization is idempotent.  Normalizing an entry raises nothing, *)
(* a field that is left out, null or blank becomes the empty string, the   *)
(* normalized type holds no upper-case letter, neither normalized field    *)
(* starts or ends with a blank, and normalizing the normalized pair yields *)
(* the same pair.                                                          *)
(***************************************************************************)
C11_NormalizeIdempotent ==
    /\ a_norm # NotCalled =>
          /\ a_norm.exc = "none"
          /\ Blank(FieldText(artifact, "type")) => a_norm.val[1] = <<>>
          /\ Blank(FieldText(artifact, "value")) => a_norm.val[2] = <<>>
          /\ \A i \in 1..Len(a_norm.val[1]) : a_norm.val[1][i] # "A"
          /\ ~Edged(a_norm.val[1]) /\ ~Edged(a_norm.val[2])
    /\ a_renorm # NotCalled => a_renorm = a_norm

\* Witness: a type in upper case between blanks and a value in upper case after
\* a blank were normalized twice.
C11_Witness ==
    /\ artifact = Artifact(JStr(<<" ", "A", " ">>), JStr(<<" ", "A">>))
    /\ a_norm = Ok(<<(<<"a">>), (<<"A">>)>>)
    /\ a_renorm # NotCalled

\* A document whose artifacts substructure holds a list of artifact entries.
HasArtifacts(d) ==
    /\ Has(d, "artifacts")
    /\ Has(d.f["artifacts"], "artifacts")
    /\ d.f["artifacts"].f["artifacts"].k = "list"
    /\ LET xs == d.f["artifacts"].f["artifacts"].items
       IN \A n \in 1..Len(xs) : IsArtifact(xs[n])
EntriesOf(d) == d.f["artifacts"].f["artifacts"].items
Complete(id) == id[1] # <<>> /\ id[2] # <<>>

(***************************************************************************)
(* C12 (SpecDoc): an artifact is identified by the pair (trimmed           *)
(* lower-cased type, trimmed value) alone.  The artifact set is the set of *)
(* the pairs of the entries whose pair has a non-empty type and value, so  *)
(* entries with equal pairs are one element whatever else they hold, and   *)
(* values that differ in letter case are different elements; the keys of   *)
(* the phase map are the same pairs of the entries of the groups that have *)
(* a phase name, and no entry of an unnamed group contributes a key.       *)
(***************************************************************************)
C12_IdentityIsThePair ==
    /\ (aset # NotCalled /\ HasArtifacts(doc)) =>
          /\ aset.exc = "none"
          /\ aset.val = {id \in {IdentityOf(EntriesOf(doc)[n]) :
                                    n \in 1..Len(EntriesOf(doc))} : Complete(id)}
    /\ (pmap # NotCalled /\ HasGroups(doc)) =>
          /\ pmap.exc = "none"
          /\ DOMAIN pmap.val =
                UNION {PairsOf(GroupsOf(doc)[n]) :
                          n \in {m \in 1..Len(GroupsOf(doc)) :
                                    Truthy(PhaseOf(GroupsOf(doc)[m]))}}

\* Witness: two entries that spell the pair (a, b) differently, one of them
\* with properties, context and confidence, made one element.
C12_Witness ==
    /\ HasArtifacts(doc)
    /\ EntriesOf(doc) = <<ArtifactAB, ArtifactAB2>>
    /\ aset = Ok({<<(<<"a">>), (<<"b">>)>>})

\* The stage ended on the failure it raises when no attempt parsed.
ParseFailed == stageRes.outcome = "exit" /\ stageRes.raised.kind = "Exception"
\* The text strictly between the first marker and the next fence, untrimmed.
Enclosed(t) == SubSeq(t, FirstMarker(t) + 1, FirstCloser(t) - 1)

(***************************************************************************)
(* C13 (SpecStage): when the whole trimmed response does not parse, the    *)
(* only other text the stage parses is the trimmed text strictly between   *)
(* the first ```json marker and the next ``` after it.  The stage fails    *)
(* when there is no marker, when the first marker has no ``` after it,     *)
(* when the enclosed text is empty or blank, and when it is not valid      *)
(* JSON, whatever a later fenced block or a bare object elsewhere in the   *)
(* text holds; when the enclosed text parses, its value is the one the     *)
(* stage goes on with.                                                     *)
(***************************************************************************)
C13_FirstBlockOnly ==
    (stageRes # NotCalled /\ content # NoContent /\ ~Parses(Trimmed)) =>
        /\ \A i \in 2..Len(stageRes.attempts) :
              /\ HasMarker(Trimmed) /\ Closers(Trimmed) # {}
              /\ stageRes.attempts[i] = StripText(Enclosed(Trimmed))
        /\ Len(stageRes.attempts) <= 2
        /\ ~HasMarker(Trimmed) => ParseFailed
        /\ (HasMarker(Trimmed) /\ Closers(Trimmed) = {}) => ParseFailed
        /\ (HasMarker(Trimmed) /\ Closers(Trimmed) # {}) =>
              IF Parses(StripText(Enclosed(Trimmed)))
              THEN stageRes.parsed = JsonLoads(StripText(Enclosed(Trimmed)))
              ELSE ParseFailed

\* Witness: the first fenced block holds prose, a bare object follows it, and
\* the stage has failed.
C13_Witness ==
    /\ stageRes # NotCalled
    /\ content = <<Marker, Prose, Fence, TokObj>>
    /\ ParseFailed

(***************************************************************************)
(* SpecChain: one run of the analyzer's main and then one run of           *)
(* evaluate.py's main whose --pred names the complete-results file that    *)
(* run wrote (json.dump, line 516; json.load returns the value dumped) and *)
(* whose --truth names any of the Evaluator's files.                       *)
(***************************************************************************)
ChainInit == RunInit

\* evaluate.py lines 72-74: the arguments of the evaluation.
StartEvaluation ==
    /\ pc = "exited" /\ json_file # NoValue
    /\ epc = "idle"
    /\ \E t \in EvalFiles : files' = [f \in {"pred", "truth"} |->
                                         IF f = "pred" THEN json_file ELSE t]
    /\ epc' = "load_pred"
    /\ UNCHANGED <<loaded, scores, stdout, eval_exit, prfVars, mapVars, docVars,
                   stageVars, runVars, normVars>>

ChainNext ==
    \/ LoadReport \/ Stage1Init \/ Stage1Generate \/ Stage1Parse
    \/ Stage2Init \/ Stage2Generate \/ Stage2Parse
    \/ Display \/ WriteSummary \/ WriteJson
    \/ StartEvaluation \/ LoadPred \/ LoadTruth \/ Score \/ PrintResults
SpecChain == ChainInit /\ [][ChainNext]_vars

\* The identity pairs of Stage 1's artifacts: none when it returned no list.
Stage1Pairs ==
    IF Has(artifacts_result, "artifacts") /\ artifacts_result.f["artifacts"].k = "list"
    THEN LET xs == artifacts_result.f["artifacts"].items
         IN {id \in {IdentityOf(xs[n]) : n \in {m \in 1..Len(xs) : IsArtifact(xs[m])}} :
                Complete(id)}
    ELSE {}

(***************************************************************************)
(* C14 (SpecChain): the complete-results document of a run holds Stage 1's *)
(* result under "artifacts" and Stage 2's result under                     *)
(* "reasoning_and_mapping" and has no "kill_chain_analysis" key.  When it  *)
(* is evaluated as the prediction, its artifact set is the set of the      *)
(* normalized pairs of Stage 1's artifacts, its phase map is empty, and    *)
(* every mapping accuracy computed for it is 0, whatever the truth         *)
(* document and whatever Stage 2 returned.                                 *)
(***************************************************************************)
C14_OutputHasNoPhaseMap ==
    /\ json_file # NoValue =>
          /\ json_file.k = "dict"
          /\ "kill_chain_analysis" \notin DOMAIN json_file.f
          /\ Has(json_file, "artifacts")
          /\ json_file.f["artifacts"] = artifacts_result
          /\ Has(json_file, "reasoning_and_mapping")
          /\ json_file.f["reasoning_and_mapping"] = reasoning_result
    /\ loaded["pred"] # NoValue =>
          /\ loaded["pred"] = json_file
          /\ ArtifactSetOf(loaded["pred"]) = Ok(Stage1Pairs)
          /\ PhaseMapOf(loaded["pred"]) = Ok(<<>>)
    /\ scores # NoValue => scores.acc = Zero

\* Witness: Stage 2 mapped (a, b) to P, the truth document maps (a, b) to P, the
\* artifact scores are 1, and the mapping accuracy computed is 0.
C14_Witness ==
    /\ reasoning_result = TokValue(TokMapping)
    /\ artifacts_result = TokValue(TokArtifacts)
    /\ scores # NoValue
    /\ PhaseMapOf(loaded["truth"]) = Ok([id \in {<<(<<"a">>), (<<"b">>)>>} |-> PhaseP])
    /\ scores.prf = PRFResult(FromInt(1), FromInt(1), FromInt(1))
    /\ scores.acc = Zero
====
